---- MODULE Spec2Model ----
(***************************************************************************)
(* Model of the OAuth2 loopback flow of src/main.go: getClient,            *)
(* tokenFromFile, saveToken and getTokenFromWeb with its HTTP handler,     *)
(* the server goroutine, the codeCh rendezvous, the 2-minute select and    *)
(* the 5-second Shutdown.                                                  *)
(***************************************************************************)
EXTENDS Integers, Sequences, FiniteSets, TLC

(* ---------------- bounds ---------------- *)
MaxRequests == 2
MaxInvocations == 2
MaxRefreshes == 1

(* ---------------- program constants ---------------- *)
\* context.WithTimeout(context.Background(), 5*time.Second)
ShutdownGrace == 5

\* values of the "code" form parameter a redirect request may carry
Codes == {"", "abc123", "xyz789"}

\* config.AuthCodeURL("state-token", ...): the state the provider's redirect
\* carries back
HonestState == "state-token"

\* values of the "state" form parameter a request may carry: the one of the
\* authorization URL, another one, none
States == {HonestState, "forged", ""}

Requests == 1..MaxRequests

(* ---------------- oauth2.Token and its JSON form ---------------- *)
\* raw is the unexported field holding the provider's response: "resp" on a
\* token returned by Exchange, "nil" on a token decoded from JSON.
MkTok(a, ty, r, e, raw) ==
  [access_token |-> a, token_type |-> ty, refresh_token |-> r, expiry |-> e, raw |-> raw]

\* &oauth2.Token{}
ZeroTok == MkTok("", "", "", "", "nil")

\* the nil *oauth2.Token
NilTok == MkTok("", "", "", "", "<nil pointer>")

\* tokens the provider's token endpoint may answer with
IssuedTokens ==
  { MkTok("at1", "Bearer", "rt1", "t1", "resp"),
    MkTok("at2", "Bearer", "", "t2", "resp") }

\* the spec's Credential: the four serialized fields of a token
Credential(t) ==
  [access_token |-> t.access_token, token_type |-> t.token_type,
   refresh_token |-> t.refresh_token, expiry |-> t.expiry]

\* A file is a sequence of chunks; a chunk is a brace, a "key":value member,
\* the trailing newline of Encoder.Encode, or a piece of non-JSON text.
Chunk(k, v) == [k |-> k, v |-> v]
LB == Chunk("{", "")
RB == Chunk("}", "")
NL == Chunk("\n", "")
Junk == Chunk("#", "")
Keys == {"access_token", "token_type", "refresh_token", "expiry"}

\* json.NewEncoder(f).Encode(token): omitempty drops empty token_type and
\* refresh_token; raw is unexported and is not written.
Encode(t) ==
  <<LB, Chunk("access_token", t.access_token)>>
  \o (IF t.token_type = "" THEN <<>> ELSE <<Chunk("token_type", t.token_type)>>)
  \o (IF t.refresh_token = "" THEN <<>> ELSE <<Chunk("refresh_token", t.refresh_token)>>)
  \o <<Chunk("expiry", t.expiry), RB, NL>>

MaxOf(S) == CHOOSE m \in S : \A x \in S : x <= m
MinOf(S) == CHOOSE m \in S : \A x \in S : m <= x

\* value of the last member named key among data[2..n-1], "" when there is none
Member(data, n, key) ==
  LET idx == {i \in 2..(n - 1) : data[i].k = key}
  IN  IF idx = {} THEN "" ELSE data[MaxOf(idx)].v

\* json.NewDecoder(f).Decode(tok) on a fresh &oauth2.Token{}: reads the first
\* JSON value of the stream; on any error tok keeps its zero value.
Decode(data) ==
  IF Len(data) = 0 THEN [tok |-> ZeroTok, err |-> "EOF"]
  ELSE IF data[1] # LB THEN [tok |-> ZeroTok, err |-> "syntax"]
  ELSE LET closing == {i \in 2..Len(data) : data[i] = RB}
       IN  IF closing = {} THEN
             IF \E i \in 2..Len(data) : data[i].k \notin Keys
               THEN [tok |-> ZeroTok, err |-> "syntax"]
               ELSE [tok |-> ZeroTok, err |-> "unexpected EOF"]
           ELSE LET n == MinOf(closing)
                IN  IF \E i \in 2..(n - 1) : data[i].k \notin Keys
                      THEN [tok |-> ZeroTok, err |-> "syntax"]
                      ELSE [tok |-> MkTok(Member(data, n, "access_token"),
                                          Member(data, n, "token_type"),
                                          Member(data, n, "refresh_token"),
                                          Member(data, n, "expiry"), "nil"),
                            err |-> "nil"]

\* the token file: present or not, and its content
NoFile == [exists |-> FALSE, data |-> <<>>]
FileOf(data) == [exists |-> TRUE, data |-> data]

\* tokenFromFile(file): os.Open fails on an absent file, else Decode
tokenFromFile(f) ==
  IF ~f.exists THEN [tok |-> NilTok, err |-> "ENOENT"]
  ELSE Decode(f.data)

\* tokens a previous run may have left in token.json
StoredTokens ==
  { MkTok("at0", "Bearer", "rt0", "t0", "nil"),
    MkTok("at1", "Bearer", "rt1", "t1", "nil") }

\* contents token.json may have when the first process starts
InitFiles ==
  {NoFile, FileOf(<<Junk>>), FileOf(<<LB, Chunk("access_token", "at0")>>)}
  \cup {FileOf(Encode(t)) : t \in StoredTokens}


(* ---------------- state ---------------- *)
VARIABLES
  proc,          \* the process: "running", "exited" (log.Fatalf), "panicked", "crashed"
  pc,            \* position of the main goroutine inside getClient
  file,          \* token.json
  muxRegistered, \* "/" is registered in http.DefaultServeMux of this process
  srvGo,         \* the goroutine running srv.ListenAndServe
  listening,     \* srv holds an open listener on :8080
  inShutdown,    \* srv.Shutdown has been called
  reqs,          \* the redirect requests and their handler goroutines
  sendq,         \* handlers blocked in codeCh <- code, in arrival order
  tok,           \* getClient's tok
  code,          \* getTokenFromWeb's code
  wpos,          \* chunks of the encoding written so far by saveToken
  shutElapsed,   \* seconds elapsed inside srv.Shutdown
  shutErr,       \* what srv.Shutdown returned
  inv,           \* invocations of getClient started so far
  cur,           \* observations of the current invocation
  prev,          \* observations of the invocation before it
  client,        \* the token source of the http.Client getClient returned
  other          \* the receiver of another run of the program on this machine

vars == <<proc, pc, file, muxRegistered, srvGo, listening, inShutdown,
          reqs, sendq, tok, code, wpos, shutElapsed, shutErr, inv, cur, prev,
          client, other>>

procVars == <<proc, muxRegistered, client, other>>
srvVars == <<srvGo, listening, inShutdown>>
shutVars == <<shutElapsed, shutErr>>

NoReq == [st |-> "unsent", code |-> "", state |-> "", resp |-> "none"]

\* no http.Client has been returned in this process
NoClient == [tok |-> NilTok, refreshes |-> 0]

\* observations of an invocation that has not started
NoObs ==
  [outcome |-> "none", loadErr |-> "none", loaded |-> NilTok, starts |-> 0,
   prompts |-> 0, got |-> <<>>, winner |-> 0, exch |-> <<>>, exchanged |-> NilTok,
   opens |-> 0, writes |-> 0, before |-> NoFile, saveErr |-> "none",
   logged |-> {}, result |-> NilTok]

\* what is remembered of an invocation once the next one starts
Summary(o) ==
  IF o.outcome = "returned"
    THEN [NoObs EXCEPT !.outcome = o.outcome, !.loadErr = o.loadErr,
                       !.saveErr = o.saveErr, !.result = o.result]
    ELSE [NoObs EXCEPT !.outcome = o.outcome]

Init ==
  /\ proc = "running"
  /\ pc = "idle"
  /\ file \in InitFiles
  /\ muxRegistered = FALSE
  /\ srvGo = "none"
  /\ listening = FALSE
  /\ inShutdown = FALSE
  /\ reqs = [r \in Requests |-> NoReq]
  /\ sendq = <<>>
  /\ tok = NilTok
  /\ code = ""
  /\ wpos = 0
  /\ shutElapsed = 0
  /\ shutErr = "none"
  /\ inv = 0
  /\ cur = NoObs
  /\ prev = NoObs
  /\ client = NoClient
  /\ other = "none"

\* log.Fatalf: os.Exit(1) ends every goroutine and closes the listener
Fatalf(reason) ==
  /\ proc' = "exited"
  /\ listening' = FALSE
  /\ cur' = [cur EXCEPT !.outcome = reason, !.logged = @ \cup {reason}]

(* ---------------- main goroutine: getClient ---------------- *)
\* a new run of the program; token.json is what the last run left
StartProcess ==
  /\ inv > 0
  /\ inv < MaxInvocations
  /\ proc # "running" \/ pc = "idle"
  /\ proc' = "running"
  /\ pc' = "idle"
  /\ muxRegistered' = FALSE
  /\ srvGo' = "none"
  /\ listening' = FALSE
  /\ inShutdown' = FALSE
  /\ reqs' = [r \in Requests |-> NoReq]
  /\ sendq' = <<>>
  /\ tok' = NilTok
  /\ code' = ""
  /\ wpos' = 0
  /\ shutElapsed' = 0
  /\ shutErr' = "none"
  /\ client' = NoClient
  /\ UNCHANGED <<file, inv, cur, prev, other>>

\* getClient is entered
Call ==
  /\ proc = "running"
  /\ pc = "idle"
  /\ inv < MaxInvocations
  /\ inv' = inv + 1
  /\ pc' = "load"
  /\ prev' = Summary(cur)
  /\ cur' = [NoObs EXCEPT !.outcome = "running"]
  /\ tok' = NilTok
  /\ code' = ""
  /\ UNCHANGED <<file, procVars, srvVars, reqs, sendq, wpos, shutVars>>

\* Load as it would be if a decode error were fatal: only an absent file
\* starts the flow, a malformed one ends the process
Load_FatalOnMalformed ==
  /\ proc = "running"
  /\ pc = "load"
  /\ LET r == tokenFromFile(file)
     IN  /\ tok' = r.tok
         /\ IF r.err \in {"nil", "ENOENT"}
              THEN /\ cur' = [cur EXCEPT !.loadErr = r.err, !.loaded = r.tok]
                   /\ pc' = IF r.err # "nil" THEN "register" ELSE "client"
                   /\ UNCHANGED <<proc, listening>>
              ELSE /\ proc' = "exited"
                   /\ listening' = FALSE
                   /\ cur' = [cur EXCEPT !.loadErr = r.err, !.loaded = r.tok,
                                         !.outcome = "load", !.logged = @ \cup {"load"}]
                   /\ UNCHANGED pc
  /\ UNCHANGED <<file, muxRegistered, client, other, srvGo, inShutdown, reqs, sendq, code, wpos,
                 shutVars, inv, prev>>

\* Load as it would be if the cached token were never used: the flow is run
\* whatever tokenFromFile returned
Load_IgnoreCache ==
  /\ proc = "running"
  /\ pc = "load"
  /\ LET r == tokenFromFile(file)
     IN  /\ tok' = r.tok
         /\ cur' = [cur EXCEPT !.loadErr = r.err, !.loaded = r.tok]
         /\ pc' = "register"
  /\ UNCHANGED <<file, procVars, srvVars, reqs, sendq, code, wpos, shutVars, inv, prev>>

\* tok, err := tokenFromFile(tokFile); if err != nil { ... }
Load ==
  /\ proc = "running"
  /\ pc = "load"
  /\ LET r == tokenFromFile(file)
     IN  /\ tok' = r.tok
         /\ cur' = [cur EXCEPT !.loadErr = r.err, !.loaded = r.tok]
         /\ pc' = IF r.err # "nil" THEN "register" ELSE "client"
  /\ UNCHANGED <<file, procVars, srvVars, reqs, sendq, code, wpos, shutVars, inv, prev>>

\* codeCh := make(chan string); srv := &http.Server{...}; http.HandleFunc("/", ...)
\* ServeMux panics when the pattern is already registered.
Register ==
  /\ proc = "running"
  /\ pc = "register"
  /\ IF muxRegistered
       THEN /\ proc' = "panicked"
            /\ listening' = FALSE
            /\ cur' = [cur EXCEPT !.outcome = "panic"]
            /\ UNCHANGED <<pc, muxRegistered, inShutdown, shutVars>>
       ELSE /\ muxRegistered' = TRUE
            /\ pc' = "go"
            /\ inShutdown' = FALSE
            /\ shutElapsed' = 0
            /\ shutErr' = "none"
            /\ UNCHANGED <<proc, listening, cur>>
  /\ UNCHANGED <<file, srvGo, reqs, sendq, tok, code, wpos, inv, prev, client, other>>

\* go func() { srv.ListenAndServe() ... }()
GoServe ==
  /\ proc = "running"
  /\ pc = "go"
  /\ srvGo' = "spawned"
  /\ pc' = "print"
  /\ cur' = [cur EXCEPT !.starts = @ + 1]
  /\ UNCHANGED <<file, procVars, listening, inShutdown, reqs, sendq, tok, code, wpos,
                 shutVars, inv, prev>>

\* authURL := config.AuthCodeURL(...); fmt.Printf(...)
PrintURL ==
  /\ proc = "running"
  /\ pc = "print"
  /\ pc' = "select"
  /\ cur' = [cur EXCEPT !.prompts = @ + 1]
  /\ UNCHANGED <<file, procVars, srvVars, reqs, sendq, tok, code, wpos, shutVars, inv, prev>>

\* ReceiveCode as it would be with "case code := <-codeCh": the received value
\* goes to a shadowing variable and the outer code stays ""
ReceiveCode_Shadowed ==
  /\ proc = "running"
  /\ pc = "select"
  /\ sendq # <<>>
  /\ LET r == Head(sendq)
     IN  /\ reqs' = [reqs EXCEPT ![r].st = "delivered"]
         /\ cur' = [cur EXCEPT !.got = Append(@, reqs[r].code), !.winner = r]
  /\ sendq' = Tail(sendq)
  /\ pc' = "shutdown"
  /\ UNCHANGED <<file, procVars, srvVars, tok, code, wpos, shutVars, inv, prev>>

\* ReceiveCode as it would be with the select inside a for loop: after a code
\* is received the flow waits again, for another code or for the timer
ReceiveCode_Loop ==
  /\ proc = "running"
  /\ pc = "select"
  /\ sendq # <<>>
  /\ LET r == Head(sendq)
     IN  /\ code' = reqs[r].code
         /\ reqs' = [reqs EXCEPT ![r].st = "delivered"]
         /\ cur' = [cur EXCEPT !.got = Append(@, reqs[r].code), !.winner = r]
  /\ sendq' = Tail(sendq)
  /\ UNCHANGED <<pc, file, procVars, srvVars, tok, wpos, shutVars, inv, prev>>

\* select: case code = <-codeCh -- the longest-waiting sender hands over its code
ReceiveCode ==
  /\ proc = "running"
  /\ pc = "select"
  /\ sendq # <<>>
  /\ LET r == Head(sendq)
     IN  /\ code' = reqs[r].code
         /\ reqs' = [reqs EXCEPT ![r].st = "delivered"]
         /\ cur' = [cur EXCEPT !.got = Append(@, reqs[r].code), !.winner = r]
  /\ sendq' = Tail(sendq)
  /\ pc' = "shutdown"
  /\ UNCHANGED <<file, procVars, srvVars, tok, wpos, shutVars, inv, prev>>

\* Timeout as it would be with log.Printf in place of log.Fatalf: the timeout
\* is logged and the flow goes on to Shutdown and Exchange with an empty code
Timeout_LogOnly ==
  /\ proc = "running"
  /\ pc = "select"
  /\ pc' = "shutdown"
  /\ cur' = [cur EXCEPT !.outcome = "timeout", !.logged = @ \cup {"timeout"}]
  /\ UNCHANGED <<proc, listening, file, muxRegistered, client, other, srvGo, inShutdown, reqs, sendq,
                 tok, code, wpos, shutVars, inv, prev>>

\* Timeout as it would be with a select that has no time.After case: the flow
\* can only leave the select by receiving a code
Timeout_NoTimer ==
  /\ FALSE
  /\ UNCHANGED vars

\* select: case <-time.After(2 * time.Minute): log.Fatalf(...)
Timeout ==
  /\ proc = "running"
  /\ pc = "select"
  /\ Fatalf("timeout")
  /\ UNCHANGED <<pc, file, muxRegistered, client, other, srvGo, inShutdown, reqs, sendq,
                 tok, code, wpos, shutVars, inv, prev>>

\* a connection whose handler has not returned keeps Shutdown waiting
Active(r) == reqs[r].st \in {"sending", "delivered"}

\* Shutdown as it would be if srv.Shutdown were called without waiting for the
\* select: the listener is closed while the flow still waits for the code
Shutdown_BeforeReceive ==
  /\ proc = "running"
  /\ pc \in {"select", "shutdown"}
  /\ inShutdown' = TRUE
  /\ listening' = FALSE
  /\ shutElapsed' = 0
  /\ pc' = IF pc = "shutdown" THEN "shutdown_wait" ELSE pc
  /\ UNCHANGED <<file, procVars, srvGo, reqs, sendq, tok, code, wpos, shutErr, inv,
                 cur, prev>>

\* srv.Shutdown(ctx), entry: closes the listener, then polls for idle connections
Shutdown ==
  /\ proc = "running"
  /\ pc = "shutdown"
  /\ inShutdown' = TRUE
  /\ listening' = FALSE
  /\ shutElapsed' = 0
  /\ pc' = "shutdown_wait"
  /\ UNCHANGED <<file, procVars, srvGo, reqs, sendq, tok, code, wpos, shutErr, inv,
                 cur, prev>>

\* ShutdownWait as it would be with log.Fatalf in place of log.Printf: a
\* Shutdown that runs into its deadline ends the process
ShutdownWait_FatalOnError ==
  /\ proc = "running"
  /\ pc = "shutdown_wait"
  /\ IF \A r \in Requests : ~Active(r)
       THEN /\ shutErr' = "nil"
            /\ pc' = "exchange"
            /\ UNCHANGED <<shutElapsed, cur, proc, listening>>
       ELSE IF shutElapsed < ShutdownGrace
         THEN /\ shutElapsed' = shutElapsed + 1
              /\ UNCHANGED <<pc, shutErr, cur, proc, listening>>
         ELSE /\ shutErr' = "deadline exceeded"
              /\ Fatalf("shutdown")
              /\ UNCHANGED <<pc, shutElapsed>>
  /\ UNCHANGED <<file, muxRegistered, client, other, srvGo, inShutdown, reqs, sendq, tok, code, wpos,
                 inv, prev>>

\* srv.Shutdown(ctx), loop: returns nil once no connection is active,
\* ctx.Err() once the 5 seconds are over; an error is only logged
ShutdownWait ==
  /\ proc = "running"
  /\ pc = "shutdown_wait"
  /\ IF \A r \in Requests : ~Active(r)
       THEN /\ shutErr' = "nil"
            /\ pc' = "exchange"
            /\ UNCHANGED <<shutElapsed, cur>>
       ELSE IF shutElapsed < ShutdownGrace
         THEN /\ shutElapsed' = shutElapsed + 1
              /\ UNCHANGED <<pc, shutErr, cur>>
         ELSE /\ shutErr' = "deadline exceeded"
              /\ pc' = "exchange"
              /\ cur' = [cur EXCEPT !.logged = @ \cup {"shutdown"}]
              /\ UNCHANGED shutElapsed
  /\ UNCHANGED <<file, procVars, srvVars, reqs, sendq, tok, code, wpos, inv, prev>>

\* Exchange as it would be with log.Printf in place of log.Fatalf: the error
\* is logged and getTokenFromWeb returns the nil token, which getClient saves
Exchange_ContinueOnError ==
  /\ proc = "running"
  /\ pc = "exchange"
  /\ \/ \E t \in IssuedTokens :
          /\ tok' = t
          /\ cur' = [cur EXCEPT !.exch = Append(@, code), !.exchanged = t]
     \/ /\ tok' = NilTok
        /\ cur' = [cur EXCEPT !.exch = Append(@, code), !.outcome = "exchange",
                              !.logged = @ \cup {"exchange"}]
  /\ pc' = "save_open"
  /\ UNCHANGED <<proc, listening, file, muxRegistered, client, other, srvGo, inShutdown, reqs, sendq,
                 code, wpos, shutVars, inv, prev>>

\* tok, err := config.Exchange(ctx, code); if err != nil { log.Fatalf(...) }
Exchange ==
  /\ proc = "running"
  /\ pc = "exchange"
  /\ \/ \E t \in IssuedTokens :
          /\ tok' = t
          /\ cur' = [cur EXCEPT !.exch = Append(@, code), !.exchanged = t]
          /\ pc' = "save_open"
          /\ UNCHANGED <<proc, listening>>
     \/ /\ proc' = "exited"
        /\ listening' = FALSE
        /\ cur' = [cur EXCEPT !.exch = Append(@, code), !.outcome = "exchange",
                              !.logged = @ \cup {"exchange"}]
        /\ UNCHANGED <<pc, tok>>
  /\ UNCHANGED <<file, muxRegistered, client, other, srvGo, inShutdown, reqs, sendq, code,
                 wpos, shutVars, inv, prev>>

\* SaveOpen as it would be with O_APPEND in place of O_TRUNC: what the file
\* held stays in front of what the save writes
SaveOpen_Append ==
  /\ proc = "running"
  /\ pc = "save_open"
  /\ \/ /\ file' = FileOf(file.data)
        /\ wpos' = 0
        /\ pc' = "save_write"
        /\ cur' = [cur EXCEPT !.opens = @ + 1, !.before = file]
        /\ UNCHANGED <<proc, listening>>
     \/ /\ proc' = "exited"
        /\ listening' = FALSE
        /\ cur' = [cur EXCEPT !.outcome = "save", !.saveErr = "open",
                              !.logged = @ \cup {"save"}]
        /\ UNCHANGED <<file, wpos, pc>>
  /\ UNCHANGED <<muxRegistered, client, other, srvGo, inShutdown, reqs, sendq, tok, code,
                 shutVars, inv, prev>>

\* saveToken: os.OpenFile(path, O_RDWR|O_CREATE|O_TRUNC, 0600); failure is log.Fatalf
SaveOpen ==
  /\ proc = "running"
  /\ pc = "save_open"
  /\ \/ /\ file' = FileOf(<<>>)
        /\ wpos' = 0
        /\ pc' = "save_write"
        /\ cur' = [cur EXCEPT !.opens = @ + 1, !.before = file]
        /\ UNCHANGED <<proc, listening>>
     \/ /\ proc' = "exited"
        /\ listening' = FALSE
        /\ cur' = [cur EXCEPT !.outcome = "save", !.saveErr = "open",
                              !.logged = @ \cup {"save"}]
        /\ UNCHANGED <<file, wpos, pc>>
  /\ UNCHANGED <<muxRegistered, client, other, srvGo, inShutdown, reqs, sendq, tok, code,
                 shutVars, inv, prev>>

\* SaveWrite as it would be if the encoder's output never reached the file:
\* the save goes through its steps and reports no error, the file stays empty
SaveWrite_NoData ==
  /\ proc = "running"
  /\ pc = "save_write"
  /\ wpos < Len(Encode(tok))
  /\ \/ /\ wpos' = wpos + 1
        /\ cur' = [cur EXCEPT !.writes = @ + 1]
        /\ UNCHANGED <<pc, file>>
     \/ /\ cur' = [cur EXCEPT !.saveErr = "write", !.before = NoFile]
        /\ pc' = "client"
        /\ UNCHANGED <<file, wpos>>
  /\ UNCHANGED <<procVars, srvVars, reqs, sendq, tok, code, shutVars, inv, prev>>

\* saveToken: json.NewEncoder(f).Encode(token), the bytes reaching the file one
\* chunk after the other; Encode's error is discarded
SaveWrite ==
  /\ proc = "running"
  /\ pc = "save_write"
  /\ wpos < Len(Encode(tok))
  /\ \/ /\ file' = FileOf(Append(file.data, Encode(tok)[wpos + 1]))
        /\ wpos' = wpos + 1
        /\ cur' = [cur EXCEPT !.writes = @ + 1]
        /\ UNCHANGED pc
     \/ /\ cur' = [cur EXCEPT !.saveErr = "write", !.before = NoFile]
        /\ pc' = "client"
        /\ UNCHANGED <<file, wpos>>
  /\ UNCHANGED <<procVars, srvVars, reqs, sendq, tok, code, shutVars, inv, prev>>

\* saveToken returns (deferred f.Close)
SaveDone ==
  /\ proc = "running"
  /\ pc = "save_write"
  /\ wpos = Len(Encode(tok))
  /\ pc' = "client"
  /\ cur' = [cur EXCEPT !.saveErr = "nil", !.before = NoFile]
  /\ UNCHANGED <<file, procVars, srvVars, reqs, sendq, tok, code, wpos, shutVars, inv, prev>>

\* the machine or the process dies while saveToken is writing
Crash ==
  /\ proc = "running"
  /\ pc = "save_write"
  /\ proc' = "crashed"
  /\ listening' = FALSE
  /\ cur' = [cur EXCEPT !.outcome = "crash"]
  /\ UNCHANGED <<pc, file, muxRegistered, client, other, srvGo, inShutdown, reqs, sendq,
                 tok, code, wpos, shutVars, inv, prev>>

\* return config.Client(context.Background(), tok)
Return ==
  /\ proc = "running"
  /\ pc = "client"
  /\ pc' = "idle"
  /\ cur' = [cur EXCEPT !.outcome = "returned", !.result = tok]
  /\ client' = [tok |-> tok, refreshes |-> 0]
  /\ UNCHANGED <<file, proc, muxRegistered, other, srvVars, reqs, sendq, tok, code, wpos,
                 shutVars, inv, prev>>

(* ---------------- server goroutine ---------------- *)
\* ListenAndServe as it would be on a listener opened with SO_REUSEPORT: the
\* bind succeeds although another run's receiver holds the port
ListenAndServe_SharedPort ==
  /\ proc = "running"
  /\ srvGo = "spawned"
  /\ \/ /\ listening' = TRUE
        /\ srvGo' = "serving"
        /\ UNCHANGED <<proc, cur>>
     \/ /\ Fatalf("bind")
        /\ UNCHANGED srvGo
  /\ UNCHANGED <<pc, file, muxRegistered, client, other, inShutdown, reqs, sendq, tok, code,
                 wpos, shutVars, inv, prev>>

\* srv.ListenAndServe(): binds :8080, or fails and log.Fatalf ends the process;
\* the bind fails when another run's receiver holds the port, and may fail
\* because anything else does
ListenAndServe ==
  /\ proc = "running"
  /\ srvGo = "spawned"
  /\ \/ /\ other # "listening"
        /\ listening' = TRUE
        /\ srvGo' = "serving"
        /\ UNCHANGED <<proc, cur>>
     \/ /\ Fatalf("bind")
        /\ UNCHANGED srvGo
  /\ UNCHANGED <<pc, file, muxRegistered, client, other, inShutdown, reqs, sendq, tok, code,
                 wpos, shutVars, inv, prev>>

\* ListenAndServe returns http.ErrServerClosed after Shutdown: no Fatalf
ServeReturn ==
  /\ proc = "running"
  /\ srvGo = "serving"
  /\ inShutdown
  /\ srvGo' = "returned"
  /\ UNCHANGED <<proc, pc, file, muxRegistered, client, other, listening, inShutdown, reqs,
                 sendq, tok, code, wpos, shutVars, inv, cur, prev>>

(* ---------------- requests and handler goroutines ---------------- *)
\* Handler as it would be without the return after http.Error: a request
\* with no code goes on to the channel send
Handler_NoReturn(r, c, s) ==
  /\ proc = "running"
  /\ listening
  /\ reqs[r].st = "unsent"
  /\ \A q \in Requests : q < r => reqs[q].st # "unsent"
  /\ reqs' = [reqs EXCEPT ![r] = [st |-> "sending", code |-> c, state |-> s,
                                  resp |-> IF c = "" THEN "400" ELSE "200"]]
  /\ sendq' = Append(sendq, r)
  /\ UNCHANGED <<proc, pc, file, muxRegistered, client, other, srvVars, tok, code,
                 wpos, shutVars, inv, cur, prev>>

\* Handler as it would be with a check of the state parameter: a request
\* whose state is not the one of the authorization URL is answered 400
Handler_CheckState(r, c, s) ==
  /\ proc = "running"
  /\ listening
  /\ reqs[r].st = "unsent"
  /\ \A q \in Requests : q < r => reqs[q].st # "unsent"
  /\ IF c = "" \/ s # HonestState
       THEN /\ reqs' = [reqs EXCEPT ![r] = [st |-> "done", code |-> c, state |-> s,
                                             resp |-> "400"]]
            /\ UNCHANGED sendq
       ELSE /\ reqs' = [reqs EXCEPT ![r] = [st |-> "sending", code |-> c, state |-> s,
                                             resp |-> "200"]]
            /\ sendq' = Append(sendq, r)
  /\ UNCHANGED <<proc, pc, file, muxRegistered, client, other, srvVars, tok, code,
                 wpos, shutVars, inv, cur, prev>>

\* a request with code c and state s reaches the listener and its handler
\* goroutine runs up to the channel send: 400 and return on an empty code,
\* else the confirmation is written and the goroutine blocks in codeCh <- code;
\* the handler reads r.FormValue("code") and nothing else of the request
Handler(r, c, s) ==
  /\ proc = "running"
  /\ listening
  /\ reqs[r].st = "unsent"
  /\ \A q \in Requests : q < r => reqs[q].st # "unsent"
  /\ IF c = ""
       THEN /\ reqs' = [reqs EXCEPT ![r] = [st |-> "done", code |-> c, state |-> s,
                                             resp |-> "400"]]
            /\ UNCHANGED sendq
       ELSE /\ reqs' = [reqs EXCEPT ![r] = [st |-> "sending", code |-> c, state |-> s,
                                             resp |-> "200"]]
            /\ sendq' = Append(sendq, r)
  /\ UNCHANGED <<proc, pc, file, muxRegistered, client, other, srvVars, tok, code,
                 wpos, shutVars, inv, cur, prev>>

\* the handler whose send was received returns; its response is flushed
HandlerReturn(r) ==
  /\ proc = "running"
  /\ reqs[r].st = "delivered"
  /\ reqs' = [reqs EXCEPT ![r].st = "done"]
  /\ UNCHANGED <<proc, pc, file, muxRegistered, client, other, srvVars, sendq, tok, code,
                 wpos, shutVars, inv, cur, prev>>

(* ---------------- the returned client ---------------- *)
\* the token the client's token source obtains with the refresh_token grant,
\* the n-th time it refreshes: a new access token and expiry, the refresh token
\* kept
Refreshed(t, n) ==
  MkTok(<<"at_r1", "at_r2", "at_r3">>[n], t.token_type, t.refresh_token,
        <<"t_r1", "t_r2", "t_r3">>[n], "resp")

\* a request made through the client returned by config.Client finds the
\* token expired and refreshes it: the new token replaces the old one in the
\* client's token source and nothing else is done with it
Refresh ==
  /\ proc = "running"
  /\ pc = "idle"
  /\ client.tok # NilTok
  /\ client.tok.refresh_token # ""
  /\ client.refreshes < MaxRefreshes
  /\ client' = [tok |-> Refreshed(client.tok, client.refreshes + 1),
                refreshes |-> client.refreshes + 1]
  /\ UNCHANGED <<proc, pc, file, muxRegistered, srvVars, reqs, sendq, tok, code, wpos,
                 shutVars, inv, cur, prev, other>>

Next ==
  \/ StartProcess
  \/ Call
  \/ Load
  \/ Register
  \/ GoServe
  \/ PrintURL
  \/ ReceiveCode
  \/ Timeout
  \/ Shutdown
  \/ ShutdownWait
  \/ Exchange
  \/ SaveOpen
  \/ SaveWrite
  \/ SaveDone
  \/ Crash
  \/ Return
  \/ Refresh
  \/ ListenAndServe
  \/ ServeReturn
  \/ \E r \in Requests, c \in Codes : Handler(r, c, HonestState)
  \/ \E r \in Requests : HandlerReturn(r)

(* ---------------- another run of the program ---------------- *)
\* everything that belongs to this run
thisRun == <<proc, pc, file, muxRegistered, srvGo, listening, inShutdown, reqs, sendq,
             tok, code, wpos, shutElapsed, shutErr, inv, cur, prev, client>>

\* another run of the program, on the same machine, reaches its own
\* go func() { srv.ListenAndServe() }()
OtherStart ==
  /\ other = "none"
  /\ other' = "spawned"
  /\ UNCHANGED thisRun

\* its srv.ListenAndServe(): binds :8080 unless this run's receiver holds the
\* port; on the bind error its log.Fatalf ends that process, not this one
OtherListen ==
  /\ other = "spawned"
  /\ other' = IF listening THEN "bindfail" ELSE "listening"
  /\ UNCHANGED thisRun

\* its receiver is closed: by its srv.Shutdown, or by the exit of its process
OtherStop ==
  /\ other = "listening"
  /\ other' = "closed"
  /\ UNCHANGED thisRun

\* one run of the program: everything but the start of a new process
RunNext ==
  \/ Call
  \/ Load
  \/ Register
  \/ GoServe
  \/ PrintURL
  \/ ReceiveCode
  \/ Timeout
  \/ Shutdown
  \/ ShutdownWait
  \/ Exchange
  \/ SaveOpen
  \/ SaveWrite
  \/ SaveDone
  \/ Crash
  \/ Return
  \/ Refresh
  \/ ListenAndServe
  \/ ServeReturn
  \/ \E r \in Requests, c \in Codes : Handler(r, c, HonestState)
  \/ \E r \in Requests : HandlerReturn(r)

\* one run of the program next to another run that competes for the port
PortNext ==
  \/ RunNext
  \/ OtherStart
  \/ OtherListen
  \/ OtherStop

PortSpec == Init /\ [][PortNext]_vars

\* getTokenFromWeb up to its exchange, with requests of any state
StateNext ==
  \/ Call
  \/ Load
  \/ Register
  \/ GoServe
  \/ PrintURL
  \/ ReceiveCode
  \/ Timeout
  \/ Shutdown
  \/ ShutdownWait
  \/ Exchange
  \/ ListenAndServe
  \/ ServeReturn
  \/ \E r \in Requests, c \in Codes, s \in States : Handler(r, c, s)
  \/ \E r \in Requests : HandlerReturn(r)

StateSpec == Init /\ [][StateNext]_vars

\* one run of the program
RunSpec == Init /\ [][RunNext]_vars

Spec == Init /\ [][Next]_vars

(* ======================= claims ======================= *)

\* the elements of a sequence
Range(s) == {s[i] : i \in 1..Len(s)}

\* the invocation found a token file that decodes without error
WarmStart(o) == o.loadErr = "nil"

\* the invocation found no file, or a file that does not decode
ColdStart(o) == o.loadErr \notin {"none", "nil"}

\* C1: an invocation that finds a decodable token file starts no receiver,
\* prints no URL, receives no code, calls no exchange and never opens or
\* writes the token file; it can only return, and what it returns is the
\* token decoded from the file; a second warm invocation in a row returns the
\* same token as the first.
C1_WarmCacheReturnsStored ==
  WarmStart(cur) =>
    /\ cur.starts = 0
    /\ cur.prompts = 0
    /\ cur.got = <<>>
    /\ cur.exch = <<>>
    /\ cur.opens = 0
    /\ cur.writes = 0
    /\ cur.outcome \in {"running", "returned"}
    /\ file.exists
    /\ Decode(file.data).err = "nil"
    /\ cur.outcome = "returned" => cur.result = Decode(file.data).tok
    /\ (WarmStart(prev) /\ prev.outcome = "returned" /\ cur.outcome = "returned")
         => cur.result = prev.result

\* two warm invocations in a row have both returned
C1_Witness ==
  /\ WarmStart(cur)
  /\ cur.outcome = "returned"
  /\ WarmStart(prev)
  /\ prev.outcome = "returned"
  /\ cur.result \in StoredTokens

\* C2: in a cold invocation the exchange is called at most once, only with
\* the code the flow received from the handler, which is the non-empty code of
\* the delivering request; once the flow is past the exchange step after
\* receiving a code, the exchange has been called exactly once with it.
C2_ExchangeOnceWithCode ==
  /\ Len(cur.exch) <= 1
  /\ Len(cur.got) <= 1
  /\ cur.exch # <<>> => (cur.got # <<>> /\ cur.exch[1] = cur.got[1] /\ cur.got[1] # "")
  /\ (cur.got # <<>> /\ pc \notin {"shutdown", "shutdown_wait"}
        /\ ~(pc = "exchange" /\ proc = "running"))
       => cur.exch = cur.got
  /\ (cur.got # <<>> /\ reqs[cur.winner].st # "unsent")
       => cur.got[1] = reqs[cur.winner].code

\* a cold invocation received "abc123" and exchanged it
C2_Witness ==
  /\ ColdStart(cur)
  /\ cur.got = <<"abc123">>
  /\ cur.exch = <<"abc123">>
  /\ cur.outcome = "returned"

\* C3: the exchange is called only when the flow holds a received code, and
\* srv.Shutdown is entered only after the flow has received the code: the
\* delivering handler's channel send has completed (it is no longer queued on
\* codeCh) and the flow's code variable holds that handler's code.
C3_ExchangeAndShutdownAfterCode ==
  [][ /\ (Len(cur'.exch) > Len(cur.exch)) => (cur.got # <<>> /\ code = cur.got[1])
      /\ (inShutdown' /\ ~inShutdown) =>
            /\ cur.got # <<>>
            /\ cur.winner \in Requests
            /\ cur.winner \notin Range(sendq)
            /\ reqs[cur.winner].st \in {"delivered", "done"}
            /\ code = reqs[cur.winner].code
    ]_vars

\* the server is shut down and the received code has been exchanged
C3_Witness ==
  /\ inShutdown
  /\ cur.got # <<>>
  /\ cur.exch = cur.got
  /\ reqs[cur.winner].st = "done"

\* C4 as stated: after a cold invocation that returned credential c, the
\* following invocation finds c in the token file, returns it, starts no
\* receiver and prints no URL.
C4_Original ==
  (ColdStart(prev) /\ prev.outcome = "returned" /\ cur.loadErr # "none") =>
    /\ WarmStart(cur)
    /\ Credential(cur.loaded) = Credential(prev.result)
    /\ cur.starts = 0
    /\ cur.prompts = 0
    /\ cur.exch = <<>>
    /\ cur.outcome \in {"running", "returned"}
    /\ cur.outcome = "returned" => Credential(cur.result) = Credential(prev.result)

\* C4 as amended: after a cold invocation that returned credential c and whose
\* saveToken wrote the whole encoding of c, the following invocation finds c
\* in the token file, returns it, starts no receiver and prints no URL.
C4_CachedAfterCompleteSave ==
  (ColdStart(prev) /\ prev.outcome = "returned" /\ prev.saveErr = "nil"
     /\ cur.loadErr # "none") =>
    /\ WarmStart(cur)
    /\ Credential(cur.loaded) = Credential(prev.result)
    /\ cur.starts = 0
    /\ cur.prompts = 0
    /\ cur.exch = <<>>
    /\ cur.outcome \in {"running", "returned"}
    /\ cur.outcome = "returned" => Credential(cur.result) = Credential(prev.result)

\* a cold invocation saved its token and the next invocation returned from the cache
C4_Witness ==
  /\ ColdStart(prev)
  /\ prev.outcome = "returned"
  /\ prev.saveErr = "nil"
  /\ prev.result \in IssuedTokens
  /\ WarmStart(cur)
  /\ cur.outcome = "returned"

\* C5: an invocation that ended by the select's timeout received no code,
\* called no exchange, returned no token and did not touch the token file; the
\* failure is logged and the listener on :8080 is closed, no later than the
\* shutdown grace period. A cold invocation returns only after receiving a code.
C5_TimeoutFailsAndReleasesPort ==
  /\ cur.outcome = "timeout" =>
       /\ "timeout" \in cur.logged
       /\ cur.got = <<>>
       /\ cur.exch = <<>>
       /\ cur.result = NilTok
       /\ cur.opens = 0
       /\ ~listening
       /\ shutElapsed <= ShutdownGrace
  /\ (cur.outcome = "returned" /\ ColdStart(cur)) => cur.got # <<>>

\* the timeout ended a process whose server had bound the port and had only
\* seen a request without code
C5_Witness ==
  /\ cur.outcome = "timeout"
  /\ proc = "exited"
  /\ srvGo = "serving"
  /\ ~listening
  /\ \E r \in Requests : reqs[r].resp = "400"

\* C6: a request without code gets 400, is never queued on codeCh and never
\* supplies the flow's code; handling it changes neither the listener nor
\* the waiting flow; the code the flow receives is the non-empty code of a
\* request that was answered with the confirmation.
C6_MissingCodeRejected ==
  /\ [](\A r \in Requests :
          (reqs[r].st # "unsent" /\ reqs[r].code = "") =>
             /\ reqs[r].st = "done"
             /\ reqs[r].resp = "400"
             /\ r \notin Range(sendq)
             /\ cur.winner # r)
  /\ [](cur.got # <<>> =>
          /\ cur.got[1] # ""
          /\ reqs[cur.winner].st # "unsent" =>
               /\ cur.got[1] = reqs[cur.winner].code
               /\ reqs[cur.winner].resp = "200")
  /\ [][\A r \in Requests :
          (reqs[r].st = "unsent" /\ reqs'[r].st # "unsent" /\ reqs'[r].code = "") =>
             /\ reqs'[r].st = "done"
             /\ listening' = listening
             /\ pc' = pc
             /\ proc' = proc
             /\ sendq' = sendq
             /\ code' = code
             /\ cur' = cur]_vars

\* a request without code was answered 400 and a later request's code
\* "abc123" was received and exchanged
C6_Witness ==
  \E r1, r2 \in Requests :
    /\ r1 < r2
    /\ reqs[r1].code = ""
    /\ reqs[r1].st = "done"
    /\ reqs[r1].resp = "400"
    /\ cur.winner = r2
    /\ code = "abc123"
    /\ cur.exch = <<"abc123">>

\* C7: once the flow has received its code, every other code-bearing request
\* is harmless: its handler is not left blocked in its channel send, the
\* shutdown does not run into its deadline, and the flow receives one code only.
C7_LaterRequestsHarmless ==
  /\ Len(cur.got) <= 1
  /\ shutErr # "deadline exceeded"
  /\ \A r \in Requests :
       (cur.got # <<>> /\ reqs[cur.winner].st # "unsent" /\ r # cur.winner
          /\ reqs[r].code # "")
         => reqs[r].st # "sending"

\* the invocation found a file that exists and does not decode
Malformed(o) == o.loadErr \in {"EOF", "syntax", "unexpected EOF"}

\* C8: a token file that exists and does not decode is a cache miss like an
\* absent file: the load reports the decode error, the invocation goes on to
\* the web flow, it never returns a token taken from that file, and when the
\* process exits it is by a fatal error of a flow step (bind, timeout,
\* exchange, save), never of the load.
C8_MalformedIsCacheMiss ==
  /\ (cur.loadErr # "none" /\ cur.opens = 0 /\ file.exists
        /\ Decode(file.data).err # "nil")
       => (Malformed(cur) /\ cur.loadErr = Decode(file.data).err)
  /\ Malformed(cur) =>
       /\ pc # "load"
       /\ cur.outcome \in {"running", "returned", "panic", "crash",
                           "bind", "timeout", "exchange", "save"}
       /\ proc = "exited" => cur.starts = 1
       /\ (pc = "client" \/ cur.outcome = "returned") =>
            /\ cur.starts = 1
            /\ cur.prompts = 1
            /\ Len(cur.exch) = 1
            /\ cur.opens = 1
            /\ cur.exchanged \in IssuedTokens
       /\ pc = "client" => tok = cur.exchanged
       /\ cur.outcome = "returned" => cur.result = cur.exchanged

\* an invocation that found non-JSON text in the token file ran the flow and returned
C8_Witness ==
  /\ cur.loadErr = "syntax"
  /\ cur.outcome = "returned"
  /\ cur.result \in IssuedTokens
  /\ cur.exch # <<>>

\* C9: a failure of saveToken (the open or the write) after a successful
\* exchange is logged and does not end the invocation, which returns the
\* exchanged token.
C9_SaveFailureNotFatal ==
  cur.saveErr \in {"open", "write"} =>
    /\ "save" \in cur.logged
    /\ cur.outcome \in {"running", "returned"}
    /\ cur.outcome = "returned" => cur.result = cur.exchanged

\* C10: from the moment saveToken has opened the file until it has returned,
\* and after a crash in between, loading the file yields a complete
\* credential: the one the file held before the save or the one being saved.
C10_SaveIsAtomic ==
  (cur.opens > 0 /\ cur.saveErr = "none") =>
    LET r == tokenFromFile(file)
        b == tokenFromFile(cur.before)
    IN  /\ r.err = "nil"
        /\ \/ Credential(r.tok) = Credential(tok)
           \/ (b.err = "nil" /\ r.tok = b.tok)


(* ---------------- saveToken on any file ---------------- *)
\* well-formed tokens saveToken may be handed: those of the provider and one
\* with no token_type, which omitempty leaves out of the file
SaveInputs == IssuedTokens \cup {MkTok("at3", "", "rt3", "t3", "resp")}

\* what token.json may hold when saveToken opens it
StoreFiles == InitFiles \cup {FileOf(<<>>)}

\* getClient at "saveToken(tokFile, tok)" with any token and any token.json
StoreInit ==
  /\ proc = "running"
  /\ pc = "save_open"
  /\ file \in StoreFiles
  /\ tok \in SaveInputs
  /\ muxRegistered = FALSE
  /\ srvGo = "none"
  /\ listening = FALSE
  /\ inShutdown = FALSE
  /\ reqs = [r \in Requests |-> NoReq]
  /\ sendq = <<>>
  /\ code = ""
  /\ wpos = 0
  /\ shutElapsed = 0
  /\ shutErr = "none"
  /\ inv = 1
  /\ cur = [NoObs EXCEPT !.outcome = "running", !.exchanged = tok]
  /\ prev = NoObs
  /\ client = NoClient
  /\ other = "none"

StoreSpec == StoreInit /\ [][Next]_vars


\* C11: round trip. Once saveToken has written a well-formed token c without
\* error, tokenFromFile succeeds and yields the credential of c, whatever
\* token.json held before the save; and the load of the next invocation
\* returns that credential.
C11_RoundTrip ==
  /\ (proc = "running" /\ pc = "save_write" /\ wpos = Len(Encode(tok)))
       => LET r == tokenFromFile(file)
          IN  r.err = "nil" /\ Credential(r.tok) = Credential(tok)
  /\ cur.saveErr = "nil"
       => LET r == tokenFromFile(file)
          IN  r.err = "nil" /\ Credential(r.tok) = Credential(cur.exchanged)
  /\ (prev.saveErr = "nil" /\ cur.loadErr # "none")
       => cur.loadErr = "nil" /\ Credential(cur.loaded) = Credential(prev.result)

\* a complete save over a file that held another valid credential
C11_Witness ==
  /\ proc = "running"
  /\ pc = "save_write"
  /\ wpos = Len(Encode(tok))
  /\ tokenFromFile(cur.before).err = "nil"
  /\ Credential(tokenFromFile(cur.before).tok) # Credential(tok)
  /\ Credential(tokenFromFile(file).tok) = Credential(tok)


\* C12: a second cold-cache invocation in the same process runs the whole
\* flow again: its handler registration does not abort the process, and when
\* it follows a cold invocation that returned it has, before the save,
\* started a receiver, printed the URL, received one code and exchanged it.
C12_SecondColdCallRunsFlow ==
  /\ cur.outcome # "panic"
  /\ (ColdStart(prev) /\ prev.outcome = "returned" /\ ColdStart(cur)
        /\ proc = "running" /\ pc \in {"save_open", "save_write", "client"})
       => /\ cur.starts = 1
          /\ cur.prompts = 1
          /\ Len(cur.got) = 1
          /\ cur.exch = cur.got


\* C13: when config.Exchange fails the invocation ends there, once: the
\* process exits at the exchange with the error logged, no token is returned,
\* saveToken is never entered, token.json is what the load found, the
\* exchange was called a single time, and nothing more happens in that
\* invocation.
C13_ExchangeFailureEndsOnce ==
  /\ [](cur.outcome = "exchange" =>
          /\ "exchange" \in cur.logged
          /\ cur.result = NilTok
          /\ cur.exchanged = NilTok
          /\ cur.opens = 0
          /\ cur.writes = 0
          /\ cur.saveErr = "none"
          /\ Len(cur.exch) = 1
          /\ tokenFromFile(file).err = cur.loadErr)
  /\ [][(cur'.outcome = "exchange" /\ cur.outcome # "exchange")
          => (pc = "exchange" /\ proc' = "exited" /\ ~listening' /\ file' = file)]_vars
  /\ [][cur.outcome = "exchange"
          => (cur' = cur /\ file' = file) \/ (inv' = inv + 1)]_vars

\* the exchange of a received code failed and the process is gone
C13_Witness ==
  /\ cur.outcome = "exchange"
  /\ proc = "exited"
  /\ cur.exch = <<"abc123">>
  /\ cur.got = <<"abc123">>
  /\ ~file.exists


\* C14: srv.Shutdown never takes longer than its 5 seconds, also while a
\* handler is still active; when it returns the deadline error the error is
\* logged, the process keeps running and the flow is at the exchange with
\* the code it received, which is the code the exchange is then called with.
C14_ShutdownFailureOnlyLogged ==
  /\ [](shutElapsed <= ShutdownGrace)
  /\ [][(shutErr' = "deadline exceeded" /\ shutErr # "deadline exceeded")
          => /\ pc = "shutdown_wait"
             /\ \E r \in Requests : Active(r)
             /\ pc' = "exchange"
             /\ proc' = "running"
             /\ cur'.outcome = "running"
             /\ "shutdown" \in cur'.logged
             /\ code' = cur.got[1]]_vars
  /\ [][(shutErr = "deadline exceeded" /\ pc = "exchange" /\ cur'.exch # cur.exch)
          => cur'.exch = cur.got]_vars

\* Shutdown ran into its deadline behind a blocked handler, and the
\* invocation still exchanged the received code and returned
C14_Witness ==
  /\ shutErr = "deadline exceeded"
  /\ shutElapsed = ShutdownGrace
  /\ "shutdown" \in cur.logged
  /\ cur.outcome = "returned"
  /\ cur.got # <<>>
  /\ cur.exch = cur.got
  /\ \E r \in Requests : reqs[r].st = "sending"


\* C18: the select ends in one of two ways and never in both: the flow
\* leaves it with exactly one received code and no timeout, or the timer
\* fires with no code received and the process exits there. An invocation
\* never receives a second code, never receives one after the timeout, and
\* is never past the select without a code.
C18_OneCodeOrTimeout ==
  /\ [](/\ Len(cur.got) <= 1
        /\ ~(cur.got # <<>> /\ "timeout" \in cur.logged))
  /\ []((proc = "running"
           /\ pc \in {"shutdown", "shutdown_wait", "exchange", "save_open", "save_write"})
          => Len(cur.got) = 1)
  /\ [][(proc = "running" /\ pc = "select" /\ proc' = "running" /\ pc' # "select")
          => (cur.got = <<>> /\ Len(cur'.got) = 1 /\ "timeout" \notin cur'.logged)]_vars
  /\ [][("timeout" \in cur'.logged /\ "timeout" \notin cur.logged)
          => (pc = "select" /\ cur.got = <<>> /\ cur'.got = <<>> /\ proc' = "exited")]_vars
  /\ [][cur.outcome = "timeout" => cur'.got = <<>>]_vars

\* the flow left the select with the first code while a second handler was
\* already offering another one
C18_Witness ==
  /\ proc = "running"
  /\ pc = "shutdown"
  /\ cur.got = <<"abc123">>
  /\ cur.winner = 1
  /\ reqs[2].st = "sending"
  /\ reqs[2].code = "xyz789"
  /\ "timeout" \notin cur.logged


\* C20: the authorization URL is printed only once the receiver has bound
\* its port: while the flow waits at the select the server goroutine is no
\* longer about to bind, and a bind failure ends the process before any URL
\* was printed.
C20_UrlAfterListening ==
  /\ (proc = "running" /\ pc = "select" /\ cur.prompts > 0) => srvGo # "spawned"
  /\ cur.outcome = "bind" => cur.prompts = 0


(* ---------------- fairness ---------------- *)
\* the steps of the main goroutine inside getClient. The goroutine is always
\* scheduled again, the timer of time.After fires, Shutdown's context expires,
\* and the calls to the token endpoint and to the file system return.
FlowStep ==
  \/ Load
  \/ Register
  \/ GoServe
  \/ PrintURL
  \/ ReceiveCode
  \/ Timeout
  \/ Shutdown
  \/ ShutdownWait
  \/ Exchange
  \/ SaveOpen
  \/ SaveWrite
  \/ SaveDone
  \/ Return

\* one run of the program with a main goroutine that keeps taking its steps
FairSpec == Init /\ [][RunNext]_vars /\ WF_vars(FlowStep)

\* C16: every invocation of getClient that has started ends: it returns, or
\* the process ends (fatal error, abort or crash). No fairness is asked of
\* requests or handlers, so this covers the run in which no redirect arrives.
C16_InvocationTerminates ==
  (cur.outcome = "running") ~> (cur.outcome # "running")

\* the receiver was listening, no request ever came, and the timer ended the wait
C16_Witness ==
  /\ cur.outcome = "timeout"
  /\ proc = "exited"
  /\ srvGo = "serving"
  /\ \A r \in Requests : reqs[r].st = "unsent"


\* C17: after the returned client has refreshed its token, token.json holds
\* the refreshed credential.
C17_RefreshIsPersisted ==
  client.refreshes > 0 =>
    LET r == tokenFromFile(file)
    IN  r.err = "nil" /\ Credential(r.tok) = Credential(client.tok)


C19_StateIsNotChecked ==
  /\ [](\A r \in Requests : reqs[r].st # "unsent"
          => reqs[r].resp = IF reqs[r].code = "" THEN "400" ELSE "200")
  /\ [](\A r1, r2 \in Requests :
          (reqs[r1].st # "unsent" /\ reqs[r2].st # "unsent"
             /\ reqs[r1].code = reqs[r2].code)
            => reqs[r1].resp = reqs[r2].resp)
  /\ [][\A r \in Requests :
          (reqs[r].st = "unsent" /\ reqs'[r].st # "unsent")
            => IF reqs'[r].code = ""
                 THEN reqs'[r].st = "done" /\ sendq' = sendq
                 ELSE reqs'[r].st = "sending" /\ sendq' = Append(sendq, r)]_vars
  /\ []((proc = "running" /\ pc \in {"shutdown", "shutdown_wait", "exchange"})
          => (cur.winner # 0 /\ code = reqs[cur.winner].code))
  /\ [][(pc = "exchange" /\ cur'.exch # cur.exch)
          => cur'.exch = <<reqs[cur.winner].code>>]_vars

\* two requests with the same code, one with a forged state and one with the
\* state of the authorization URL, were answered alike, and the code of the
\* forged one was received and exchanged
C19_Witness ==
  /\ reqs[1] = [st |-> "done", code |-> "abc123", state |-> "forged", resp |-> "200"]
  /\ reqs[2].code = "abc123"
  /\ reqs[2].state = HonestState
  /\ reqs[2].resp = "200"
  /\ cur.winner = 1
  /\ cur.exch = <<"abc123">>
  /\ cur.exchanged \in IssuedTokens

====
